---- MODULE Spec2Model ----
(***************************************************************************)
(* Model of the video ingestion pipeline of routes/videoRoutes.js:         *)
(* POST /upload (multer reception, availability probe, duration probe,     *)
(* rendition loop, master playlist, catalog save, cleanup) and             *)
(* DELETE /:id, together with the Video model of models/Video.js.          *)
(*                                                                         *)
(* Every await of a handler is a step boundary: an action completes the    *)
(* pending asynchronous operation and runs the continuation up to the      *)
(* next asynchronous operation the code issues.                            *)
(***************************************************************************)
EXTENDS Integers, Sequences, FiniteSets, TLC

\* ------------------------------------------------------------------ bounds
MaxUploads == 1
MaxDeletes == 1
\* GET /:id requests and stream requests served
MaxGets == 1
MaxStreams == 1

Uploads == 1..MaxUploads
Deletes == 1..MaxDeletes
Gets == 1..MaxGets
Streams == 1..MaxStreams

\* ------------------------------------------------------- configuration data
\* videoRoutes.js:90-98
allowedMimes ==
  {"video/mp4", "video/avi", "video/mov", "video/wmv", "video/flv",
   "video/quicktime", "video/x-msvideo"}

\* MIME types a caller may declare: one of the allow-list, one that
\* utils/videoValidation.js lists but the route does not, one that is no video.
Mimes == {"video/mp4", "video/x-matroska", "text/plain"}

\* videoRoutes.js:108-123.  A bitrate string is kept as its characters so
\* that parseInt is computed, not assumed.
renditions ==
  << [resolution |-> "1280x720", bandwidth |-> <<"2", "5", "0", "0", "k">>,
      audioBitrate |-> "128k", folderName |-> "720p",
      playlistName |-> "index.m3u8"],
     [resolution |-> "854x480", bandwidth |-> <<"1", "5", "0", "0", "k">>,
      audioBitrate |-> "96k", folderName |-> "480p",
      playlistName |-> "index.m3u8"] >>

\* models/Video.js:3-7: the paths of VideoSchema.
VideoSchema == {"title", "filePath", "uploadedAt"}

\* ------------------------------------------------------------ pure helpers
Digits == {"0", "1", "2", "3", "4", "5", "6", "7", "8", "9"}

DigitVal(c) ==
  CASE c = "0" -> 0 [] c = "1" -> 1 [] c = "2" -> 2 [] c = "3" -> 3
    [] c = "4" -> 4 [] c = "5" -> 5 [] c = "6" -> 6 [] c = "7" -> 7
    [] c = "8" -> 8 [] c = "9" -> 9

RECURSIVE ParseDigits(_, _, _)
ParseDigits(s, i, acc) ==
  IF i > Len(s) \/ s[i] \notin Digits
  THEN acc
  ELSE ParseDigits(s, i + 1, acc * 10 + DigitVal(s[i]))

\* JavaScript parseInt on a string of characters: the value of the longest
\* prefix of decimal digits (NaN, written -1, when there is none).
parseInt(s) ==
  IF Len(s) = 0 \/ s[1] \notin Digits THEN -1 ELSE ParseDigits(s, 1, 0)

\* Math.round of a non-negative duration given in tenths of a second.
MathRound(tenths) == (tenths + 5) \div 10

\* String.prototype.includes on messages kept as sequences of tokens.
Includes(msg, sub) ==
  \E i \in 1..(Len(msg) - Len(sub) + 1) :
    SubSeq(msg, i, i + Len(sub) - 1) = sub

\* ---------------------------------------------------------- error messages
\* videoRoutes.js:102
InvalidFileType(mimetype) ==
  <<"Invalid", "file", "type", ":", mimetype, ".", "Only", "video", "files",
    "are", "allowed", ".">>
\* videoRoutes.js:194
FileTooLarge == <<"File", "too", "large", ".", "Maximum", "size", "is", "100MB">>
\* videoRoutes.js:202
NoFileUploaded ==
  <<"No", "file", "uploaded", ".", "Please", "select", "a", "video", "file", ".">>
\* videoRoutes.js:179
UploadTimeout == <<"Upload", "timeout">>
\* videoRoutes.js:256
ProcessingTimeout(resolution) == <<"Processing", "timeout", "for", resolution>>
\* The message of the encoder's 'error' event (videoRoutes.js:288-291) is the
\* encoder's own text: its exit line, possibly followed by the tail of its
\* diagnostics, which name the input file.  The stored input file keeps the
\* extension the caller chose (videoRoutes.js:72-76).
EncoderMessages ==
  { <<"ffmpeg", "exited", "with", "code", "1">>,
    <<"ffmpeg", "exited", "with", "code", "1", ":", "uploads/video-1", ".",
      "timeout", ":", "Invalid", "data", "found", "when", "processing",
      "input">> }
\* The rejection of video.save() (videoRoutes.js:334).
SaveFailed == <<"Video", "validation", "failed">>
\* res.json on a response that was already sent (videoRoutes.js:358).
HeadersSent ==
  <<"Cannot", "set", "headers", "after", "they", "are", "sent", "to", "the",
    "client">>
\* Video.findById on an id that is no ObjectId (videoRoutes.js:507).
CastError == <<"Cast", "to", "ObjectId", "failed">>
\* Video.findByIdAndDelete rejecting (videoRoutes.js:524).
DeleteFailed == <<"catalog", "delete", "failed">>

\* ffmpegError of videoRoutes.js:227: the errors ffprobe calls back with, when
\* the ffprobe binary cannot be found and when it ran on the file and exited
\* with a failure because the content is not a media file it can read.
CannotFindFfprobe == <<"Cannot", "find", "ffprobe">>
FfprobeExited == <<"ffprobe", "exited", "with", "code", "1">>
FfprobeErrors == {CannotFindFfprobe, FfprobeExited}

\* fsp.unlink of the temp file throwing (videoRoutes.js:340, 367).
UnlinkFailed ==
  <<"EPERM", ":", "operation", "not", "permitted", ",", "unlink">>

NoError == <<>>

VARIABLES
  req,        \* per upload request: the handler's locals and its position
  res,        \* per upload request: the responses sent, in order
  tmpFiles,   \* upload requests whose temp source file exists on disk
  disk,       \* paths that exist under the uploads root, as <<id, ...>>
  master,     \* per asset id: the lines of master.m3u8 (<<>> when absent)
  catalog,    \* the Video documents of the catalog
  nextId,     \* number of ObjectIds generated so far
  del,        \* per delete request: its locals and position
  dres,       \* per delete request: the responses sent, in order
  get,        \* per GET /:id request: its locals and position
  gres,       \* per GET /:id request: the responses sent, in order
  strm,       \* per stream request: its locals and position
  sres        \* per stream request: the responses sent, in order

vars == <<req, res, tmpFiles, disk, master, catalog, nextId, del, dres,
          get, gres, strm, sres>>

Ids == 1..MaxUploads
\* ids a caller may name: every id the server can generate and one it never
\* generates.
IdParams == 1..(MaxUploads + 1)

NoJobs == [k \in 1..Len(renditions) |-> "pending"]
NoProcs == [k \in 1..Len(renditions) |-> "none"]
NoTimers == [k \in 1..Len(renditions) |-> "unset"]

InitReq ==
  [pc |-> "idle", hasFile |-> FALSE, mimetype |-> "video/mp4",
   tooLarge |-> FALSE, timer |-> "unset", file |-> FALSE, videoId |-> 0,
   ffmpegAvailable |-> TRUE, duration |-> 0, k |-> 0, jobs |-> NoJobs,
   procs |-> NoProcs, availProc |-> "none", durProc |-> "none",
   durJob |-> "pending", timers |-> NoTimers, durTimer |-> "unset",
   ffmpegError |-> NoError, error |-> NoError]

InitDel == [pc |-> "idle", id |-> 1, wellFormed |-> TRUE,
            videoDirExists |-> FALSE, error |-> NoError]

InitGet == [pc |-> "idle", id |-> 1, wellFormed |-> TRUE]

InitStream == [pc |-> "idle", id |-> "1", file |-> <<>>, filePath |-> <<>>,
               contentType |-> "unset", cacheControl |-> "unset"]

Init ==
  /\ req = [r \in Uploads |-> InitReq]
  /\ res = [r \in Uploads |-> <<>>]
  /\ tmpFiles = {}
  /\ disk = {}
  /\ master = [i \in Ids |-> <<>>]
  /\ catalog = {}
  /\ nextId = 0
  /\ del = [d \in Deletes |-> InitDel]
  /\ dres = [d \in Deletes |-> <<>>]
  /\ get = [g \in Gets |-> InitGet]
  /\ gres = [g \in Gets |-> <<>>]
  /\ strm = [t \in Streams |-> InitStream]
  /\ sres = [t \in Streams |-> <<>>]

\* --------------------------------------------------------- shared helpers
\* clearTimeout(timeout) (videoRoutes.js:133, 185, 284, 289): a timer that
\* has not fired will not fire; otherwise nothing.
clearTimeout(timer) == IF timer = "armed" THEN "cleared" ELSE timer

\* a promise whose state a later resolve or reject replaces
SettleOverwrites(state, outcome) == outcome

\* resolve and reject of the promises of videoRoutes.js:127 and 254: the
\* first call settles the pending promise, every later call does nothing.
Settle(state, outcome) == IF state = "running" THEN outcome ELSE state

\* res.headersSent
headersSent(r) == Len(res[r]) > 0

\* a filter that lets every declared type through
fileFilterAcceptsAll(mimetype) == TRUE

\* videoRoutes.js:88-104: multer's fileFilter.
fileFilter(mimetype) == mimetype \in allowedMimes

\* a status selection without the branch for the size ceiling
StatusCodeWithoutTooLarge(error) ==
  IF Includes(error, <<"timeout">>) THEN 408 ELSE 500

\* videoRoutes.js:383-384
StatusCode(error) ==
  IF Includes(error, <<"timeout">>) THEN 408
  ELSE IF Includes(error, <<"File", "too", "large">>) THEN 413
  ELSE 500

\* videoRoutes.js:386-392: the error response, sent unless one was sent.
ErrorResponse(sent, error) ==
  IF Len(sent) > 0
  THEN sent
  ELSE Append(sent, [status |-> StatusCode(error), error |-> error])

\* fs.existsSync(outputDir) of a request record (videoRoutes.js:371).
OutputDirExists(rq) == rq.videoId # 0 /\ <<rq.videoId>> \in disk

\* fsp.rm(dir, {recursive, force}) of an asset directory.
RmTree(id) == {p \in disk : p[1] # id}

\* videoRoutes.js:371-392: the second half of cleanup and the error
\* response, for request r whose locals are rq.
CleanupOutputDir(r, rq) ==
  IF OutputDirExists(rq)
  THEN /\ req' = [req EXCEPT ![r] = [rq EXCEPT !.pc = "cleanupRm"]]
       /\ res' = res
  ELSE /\ req' = [req EXCEPT ![r] = [rq EXCEPT !.pc = "done"]]
       /\ res' = [res EXCEPT ![r] = ErrorResponse(res[r], rq.error)]

\* videoRoutes.js:360-370: the catch block entered with `error`; tmp is the
\* set of temp files at that moment.
Catch(r, rq, error, tmp) ==
  LET rq1 == [rq EXCEPT !.error = error] IN
  IF rq1.file /\ r \in tmp
  THEN /\ req' = [req EXCEPT ![r] = [rq1 EXCEPT !.pc = "cleanupUnlink"]]
       /\ res' = res
  ELSE CleanupOutputDir(r, rq1)

\* ------------------------------------------------------------ POST /upload
\* videoRoutes.js:171-184: the request arrives, the response timer is armed
\* and multer starts to receive the body.  diskStorage writes the file of an
\* accepted part under the uploads root as it arrives (videoRoutes.js:64-81).
PostUpload(r) ==
  /\ req[r].pc = "idle"
  /\ \A q \in Uploads : q < r => req[q].pc # "idle"
  /\ \E hasFile \in BOOLEAN, mimetype \in Mimes, tooLarge \in BOOLEAN :
       /\ hasFile \/ (mimetype = "video/mp4" /\ ~tooLarge)
       /\ fileFilter(mimetype) \/ ~tooLarge
       /\ req' = [req EXCEPT ![r] =
                    [@ EXCEPT !.pc = "receiving", !.hasFile = hasFile,
                              !.mimetype = mimetype, !.tooLarge = tooLarge,
                              !.timer = "armed"]]
       /\ tmpFiles' = IF hasFile /\ fileFilter(mimetype)
                      THEN tmpFiles \cup {r} ELSE tmpFiles
  /\ UNCHANGED <<res, disk, master, catalog, nextId, del, dres>>
  /\ UNCHANGED <<get, gres, strm, sres>>

\* videoRoutes.js:175-182: the 5-minute response timer fires.
ResponseTimer(r) ==
  /\ req[r].timer = "armed"
  /\ req' = [req EXCEPT ![r].timer = "fired"]
  /\ res' = [res EXCEPT ![r] =
               IF headersSent(r) THEN @
               ELSE Append(@, [status |-> 408, error |-> UploadTimeout])]
  /\ UNCHANGED <<tmpFiles, disk, master, catalog, nextId, del, dres>>
  /\ UNCHANGED <<get, gres, strm, sres>>

\* videoRoutes.js:184-215: multer calls back and clearTimeout stops a timer
\* that has not fired.  On a rejected part no file was stored; on
\* LIMIT_FILE_SIZE multer removes the partial file and leaves req.file unset.
UploadSingle(r) ==
  /\ req[r].pc = "receiving"
  /\ LET rq == [req[r] EXCEPT !.timer = clearTimeout(@)] IN
       IF rq.hasFile /\ ~fileFilter(rq.mimetype)
       THEN /\ Catch(r, rq, InvalidFileType(rq.mimetype), tmpFiles)
            /\ UNCHANGED <<tmpFiles, nextId>>
       ELSE IF rq.hasFile /\ rq.tooLarge
       THEN /\ tmpFiles' = tmpFiles \ {r}
            /\ Catch(r, rq, FileTooLarge, tmpFiles \ {r})
            /\ UNCHANGED nextId
       ELSE IF ~rq.hasFile
       THEN /\ Catch(r, rq, NoFileUploaded, tmpFiles)
            /\ UNCHANGED <<tmpFiles, nextId>>
       ELSE /\ nextId' = nextId + 1
            /\ req' = [req EXCEPT ![r] =
                         [rq EXCEPT !.file = TRUE, !.videoId = nextId + 1,
                                    !.pc = "mkdirOutput"]]
            /\ UNCHANGED <<res, tmpFiles>>
  /\ UNCHANGED <<disk, master, catalog, del, dres>>
  /\ UNCHANGED <<get, gres, strm, sres>>

\* videoRoutes.js:215-226: the output directory is created and the
\* availability probe is started.
MkdirOutput(r) ==
  /\ req[r].pc = "mkdirOutput"
  /\ disk' = disk \cup {<<req[r].videoId>>}
  /\ req' = [req EXCEPT ![r].pc = "availProbe", ![r].availProc = "running"]
  /\ UNCHANGED <<res, tmpFiles, master, catalog, nextId, del, dres>>
  /\ UNCHANGED <<get, gres, strm, sres>>

\* videoRoutes.js:222-240: the probe calls back without error; the duration
\* probe and its 15 s timer are started.
AvailProbeOk(r) ==
  /\ req[r].pc = "availProbe"
  /\ req' = [req EXCEPT ![r].pc = "duration", ![r].availProc = "exited",
                        ![r].ffmpegAvailable = TRUE,
                        ![r].durProc = "running", ![r].durJob = "running",
                        ![r].durTimer = "armed"]
  /\ UNCHANGED <<res, tmpFiles, disk, master, catalog, nextId, del, dres>>
  /\ UNCHANGED <<get, gres, strm, sres>>

\* videoRoutes.js:227-230, 310-314: the probe calls back with an error; the
\* copy of the original file is started.
AvailProbeErr(r) ==
  /\ req[r].pc = "availProbe"
  /\ \E ffmpegError \in FfprobeErrors :
       req' = [req EXCEPT ![r].pc = "copyOriginal", ![r].availProc = "exited",
                          ![r].ffmpegError = ffmpegError,
                          ![r].ffmpegAvailable = FALSE]
  /\ UNCHANGED <<res, tmpFiles, disk, master, catalog, nextId, del, dres>>
  /\ UNCHANGED <<get, gres, strm, sres>>

\* The duration the prober reports for the uploaded file, in tenths of a second.
ProbedDurations == {126}

\* a loop that leaves after its first entry
NextRenditionFirstOnly(rq, k) ==
  IF k <= 1
  THEN [rq EXCEPT !.k = k, !.pc = "mkdirRendition"]
  ELSE [rq EXCEPT !.k = k, !.pc = "writeMaster"]

\* videoRoutes.js:248-250: the loop turns to ladder entry k and creates its
\* directory; past the last entry the master playlist is written (298-308).
NextRendition(rq, k) ==
  IF k <= Len(renditions)
  THEN [rq EXCEPT !.k = k, !.pc = "mkdirRendition"]
  ELSE [rq EXCEPT !.k = k, !.pc = "writeMaster"]

\* videoRoutes.js:132-139, 240-241: ffprobe calls back with metadata before
\* the timer fires.
DurationResult(r) ==
  /\ req[r].pc = "duration"
  /\ \E tenths \in ProbedDurations :
       req' = [req EXCEPT ![r] =
                 NextRendition([@ EXCEPT !.duration = MathRound(tenths),
                                         !.durProc = "exited",
                                         !.durTimer = clearTimeout(@),
                                         !.durJob = Settle(@, "succeeded")],
                               1)]
  /\ UNCHANGED <<res, tmpFiles, disk, master, catalog, nextId, del, dres>>
  /\ UNCHANGED <<get, gres, strm, sres>>

\* videoRoutes.js:134-136: ffprobe calls back with an error: resolve(0).
DurationError(r) ==
  /\ req[r].pc = "duration"
  /\ req' = [req EXCEPT ![r] =
               NextRendition([@ EXCEPT !.duration = 0, !.durProc = "exited",
                                       !.durTimer = clearTimeout(@),
                                       !.durJob = Settle(@, "failed")], 1)]
  /\ UNCHANGED <<res, tmpFiles, disk, master, catalog, nextId, del, dres>>
  /\ UNCHANGED <<get, gres, strm, sres>>

\* videoRoutes.js:128-130, 242-245: the 15 s timer fires first; the promise
\* rejects, the handler sets duration = 0; nothing stops ffprobe.
DurationTimeout(r) ==
  /\ req[r].pc = "duration"
  /\ req[r].durTimer = "armed"
  /\ req' = [req EXCEPT ![r] =
               NextRendition([@ EXCEPT !.duration = 0, !.durTimer = "fired",
                                       !.durJob = Settle(@, "timedout")], 1)]
  /\ UNCHANGED <<res, tmpFiles, disk, master, catalog, nextId, del, dres>>
  /\ UNCHANGED <<get, gres, strm, sres>>

\* videoRoutes.js:132-139: ffprobe calls back after the timer fired; the
\* promise is settled already.
DurationLate(r) ==
  /\ req[r].durJob = "timedout"
  /\ req[r].durProc = "running"
  /\ \E outcome \in {"succeeded", "failed"} :
       req' = [req EXCEPT ![r].durProc = "exited",
                          ![r].durTimer = clearTimeout(@),
                          ![r].durJob = Settle(@, outcome)]
  /\ UNCHANGED <<res, tmpFiles, disk, master, catalog, nextId, del, dres>>
  /\ UNCHANGED <<get, gres, strm, sres>>

\* videoRoutes.js:250-293: the rendition directory exists; the encoder is
\* started together with its 2-minute timer.
MkdirRendition(r) ==
  /\ req[r].pc = "mkdirRendition"
  /\ LET k == req[r].k IN
       /\ disk' = disk \cup {<<req[r].videoId, renditions[k].folderName>>}
       /\ req' = [req EXCEPT ![r].pc = "encode", ![r].jobs[k] = "running",
                             ![r].procs[k] = "running",
                             ![r].timers[k] = "armed"]
  /\ UNCHANGED <<res, tmpFiles, master, catalog, nextId, del, dres>>
  /\ UNCHANGED <<get, gres, strm, sres>>

\* a job that writes its segments next to the master playlist
RenditionOutputsInAssetRoot(id, k) ==
  {<<id, renditions[k].folderName, renditions[k].playlistName>>,
   <<id, "segment_000.ts">>}

\* videoRoutes.js:249, 271-274: the files a rendition job writes: its
\* playlist and its segments, both in renditionDir.
RenditionOutputs(id, k) ==
  {<<id, renditions[k].folderName, renditions[k].playlistName>>,
   <<id, renditions[k].folderName, "segment_000.ts">>}

\* videoRoutes.js:283-287: 'end' before the timer: resolve; the loop goes on.
EncodeEnd(r) ==
  /\ req[r].pc = "encode"
  /\ LET k == req[r].k IN
       /\ disk' = disk \cup RenditionOutputs(req[r].videoId, k)
       /\ req' = [req EXCEPT ![r] =
                    NextRendition([@ EXCEPT !.jobs[k] = Settle(@, "succeeded"),
                                            !.timers[k] = clearTimeout(@),
                                            !.procs[k] = "exited"], k + 1)]
  /\ UNCHANGED <<res, tmpFiles, master, catalog, nextId, del, dres>>
  /\ UNCHANGED <<get, gres, strm, sres>>

\* a loop that turns to the next ladder entry when a job's promise rejects
RejectContinues(r, rq, error) ==
  /\ req' = [req EXCEPT ![r] = NextRendition(rq, rq.k + 1)]
  /\ res' = res

\* videoRoutes.js:254, 360: the awaited promise of a job rejects: the loop is
\* left for the catch block.
Reject(r, rq, error) == Catch(r, rq, error, tmpFiles)

\* videoRoutes.js:288-292: 'error' before the timer: reject(err).
EncodeError(r) ==
  /\ req[r].pc = "encode"
  /\ \E msg \in EncoderMessages :
       LET k == req[r].k IN
         Reject(r, [req[r] EXCEPT !.jobs[k] = Settle(@, "failed"),
                                  !.timers[k] = clearTimeout(@),
                                  !.procs[k] = "exited"],
                msg)
  /\ UNCHANGED <<tmpFiles, disk, master, catalog, nextId, del, dres>>
  /\ UNCHANGED <<get, gres, strm, sres>>

\* videoRoutes.js:255-257: the 2-minute timer fires first: reject; the
\* encoder process is not touched.
EncodeTimeout(r) ==
  /\ req[r].pc = "encode"
  /\ req[r].timers[req[r].k] = "armed"
  /\ LET k == req[r].k IN
       Reject(r, [req[r] EXCEPT !.jobs[k] = Settle(@, "timedout"),
                                !.timers[k] = "fired"],
              ProcessingTimeout(renditions[k].resolution))
  /\ UNCHANGED <<tmpFiles, disk, master, catalog, nextId, del, dres>>
  /\ UNCHANGED <<get, gres, strm, sres>>

\* videoRoutes.js:283-292: 'end' or 'error' of an encoder whose timer has
\* fired: clearTimeout and a resolve/reject of a settled promise.
EncodeLate(r) ==
  /\ \E k \in 1..Len(renditions) :
       /\ req[r].jobs[k] = "timedout"
       /\ req[r].procs[k] = "running"
       /\ \E outcome \in {"succeeded", "failed"} :
            req' = [req EXCEPT ![r].procs[k] = "exited",
                               ![r].timers[k] = clearTimeout(@),
                               ![r].jobs[k] = Settle(@, outcome)]
  /\ UNCHANGED <<res, tmpFiles, disk, master, catalog, nextId, del, dres>>
  /\ UNCHANGED <<get, gres, strm, sres>>

\* videoRoutes.js:298-305
masterContent ==
  <<"#EXTM3U", "#EXT-X-VERSION:6">> \o
  [i \in 1..(2 * Len(renditions)) |->
     IF i % 2 = 1
     THEN [BANDWIDTH |-> parseInt(renditions[(i + 1) \div 2].bandwidth) * 1000,
           RESOLUTION |-> renditions[(i + 1) \div 2].resolution]
     ELSE <<renditions[i \div 2].folderName, renditions[i \div 2].playlistName>>]

\* videoRoutes.js:318-332: the object handed to the Video constructor.
VideoFields(rq) ==
  [_id |-> rq.videoId,
   title |-> "clip",
   description |-> "",
   originalFileName |-> "clip.mp4",
   filePath |-> IF rq.ffmpegAvailable
                THEN <<rq.videoId, "master.m3u8">>
                ELSE <<rq.videoId, "original.mp4">>,
   mimeType |-> rq.mimetype,
   duration |-> rq.duration,
   renditions |-> IF rq.ffmpegAvailable
                  THEN [k \in 1..Len(renditions) |->
                          [resolution |-> renditions[k].resolution,
                           bandwidth |-> parseInt(renditions[k].bandwidth) * 1000,
                           playlistPath |-> <<rq.videoId,
                                              renditions[k].folderName,
                                              renditions[k].playlistName>>]]
                  ELSE <<>>]

\* new Video(fields) under models/Video.js: a document keeps _id and the
\* paths of its schema (mongoose's strict mode drops every other field).
NewVideo(fields) ==
  [f \in DOMAIN fields \cap (VideoSchema \cup {"_id"}) |-> fields[f]]

\* videoRoutes.js:307-332: master.m3u8 is written; the document is built and
\* video.save() is issued.
WriteMaster(r) ==
  /\ req[r].pc = "writeMaster"
  /\ master' = [master EXCEPT ![req[r].videoId] = masterContent]
  /\ disk' = disk \cup {<<req[r].videoId, "master.m3u8">>}
  /\ req' = [req EXCEPT ![r].pc = "save"]
  /\ UNCHANGED <<res, tmpFiles, catalog, nextId, del, dres>>
  /\ UNCHANGED <<get, gres, strm, sres>>

\* videoRoutes.js:313-332: the original file is copied; the document is built
\* and video.save() is issued.
CopyOriginal(r) ==
  /\ req[r].pc = "copyOriginal"
  /\ disk' = disk \cup {<<req[r].videoId, "original.mp4">>}
  /\ req' = [req EXCEPT ![r].pc = "save"]
  /\ UNCHANGED <<res, tmpFiles, master, catalog, nextId, del, dres>>
  /\ UNCHANGED <<get, gres, strm, sres>>

\* a response whose URLs always name the copied original
PlayableFileAlwaysOriginal(rq) == "original.mp4"

\* videoRoutes.js:353-354: the file both URLs of the 201 name:
\* ffmpegAvailable ? 'master.m3u8' : 'original' + path.extname(originalname)
PlayableFile(rq) ==
  IF rq.ffmpegAvailable THEN "master.m3u8" ELSE "original.mp4"

\* videoRoutes.js:348-356: the body of the 201 for the document `video`.
Response201(video, rq) ==
  [status |-> 201, error |-> NoError, video |-> video,
   playlistUrl |-> <<"uploads", video._id, PlayableFile(rq)>>,
   streamingUrl |->
     <<"api", "videos", "stream", video._id, PlayableFile(rq)>>]

\* videoRoutes.js:347-358: res.status(201).json(response); it throws when a
\* response was sent before.
Respond201(r, rq) ==
  IF headersSent(r)
  THEN Catch(r, rq, HeadersSent, tmpFiles')
  ELSE /\ req' = [req EXCEPT ![r] = [rq EXCEPT !.pc = "done"]]
       /\ res' = [res EXCEPT ![r] =
                    Append(@, Response201(NewVideo(VideoFields(rq)), rq))]

\* videoRoutes.js:334-340: the document is stored; the temp file's unlink is
\* issued.
Save(r) ==
  /\ req[r].pc = "save"
  /\ catalog' = catalog \cup {NewVideo(VideoFields(req[r]))}
  /\ req' = [req EXCEPT ![r].pc = "unlinkTmp"]
  /\ UNCHANGED <<res, tmpFiles, disk, master, nextId, del, dres>>
  /\ UNCHANGED <<get, gres, strm, sres>>

\* videoRoutes.js:334, 360: video.save() rejects.
SaveFails(r) ==
  /\ req[r].pc = "save"
  /\ Catch(r, req[r], SaveFailed, tmpFiles)
  /\ UNCHANGED <<tmpFiles, disk, master, catalog, nextId, del, dres>>
  /\ UNCHANGED <<get, gres, strm, sres>>

\* videoRoutes.js:340-358: the temp file is removed; the 201 is sent.
UnlinkTmp(r) ==
  /\ req[r].pc = "unlinkTmp"
  /\ tmpFiles' = tmpFiles \ {r}
  /\ Respond201(r, req[r])
  /\ UNCHANGED <<disk, master, catalog, nextId, del, dres>>
  /\ UNCHANGED <<get, gres, strm, sres>>

\* videoRoutes.js:342-358: the unlink throws; the warning is logged; the 201
\* is sent.
UnlinkTmpFails(r) ==
  /\ req[r].pc = "unlinkTmp"
  /\ tmpFiles' = tmpFiles
  /\ Respond201(r, req[r])
  /\ UNCHANGED <<disk, master, catalog, nextId, del, dres>>
  /\ UNCHANGED <<get, gres, strm, sres>>

\* videoRoutes.js:366-374: cleanup's unlink of the temp file succeeded.
CleanupUnlink(r) ==
  /\ req[r].pc = "cleanupUnlink"
  /\ tmpFiles' = tmpFiles \ {r}
  /\ CleanupOutputDir(r, req[r])
  /\ UNCHANGED <<disk, master, catalog, nextId, del, dres>>
  /\ UNCHANGED <<get, gres, strm, sres>>

\* a cleanup that lets its own error replace the error being handled
CleanupCatchEscalates(error, cleanupError) == cleanupError

\* videoRoutes.js:375-389: cleanup's catch logs cleanupError; the response is
\* composed from the error the outer catch received.
CleanupCatch(error, cleanupError) == error

\* videoRoutes.js:367, 375-392: cleanup's unlink throws; cleanup's catch logs
\* it and the response is sent.
CleanupUnlinkFails(r) ==
  /\ req[r].pc = "cleanupUnlink"
  /\ req' = [req EXCEPT ![r].pc = "done"]
  /\ res' = [res EXCEPT ![r] =
               ErrorResponse(@, CleanupCatch(req[r].error, UnlinkFailed))]
  /\ UNCHANGED <<tmpFiles, disk, master, catalog, nextId, del, dres>>
  /\ UNCHANGED <<get, gres, strm, sres>>

\* videoRoutes.js:372-392: the output directory is removed; the response is
\* sent.
CleanupRm(r) ==
  /\ req[r].pc = "cleanupRm"
  /\ disk' = RmTree(req[r].videoId)
  /\ master' = [master EXCEPT ![req[r].videoId] = <<>>]
  /\ req' = [req EXCEPT ![r].pc = "done"]
  /\ res' = [res EXCEPT ![r] = ErrorResponse(@, req[r].error)]
  /\ UNCHANGED <<tmpFiles, catalog, nextId, del, dres>>
  /\ UNCHANGED <<get, gres, strm, sres>>

\* ------------------------------------------------------------- DELETE /:id
\* Video.findById(id)
findById(id) == {v \in catalog : v._id = id}

\* videoRoutes.js:504-507: the request arrives; findById is issued.
DeleteVideo(d) ==
  /\ del[d].pc = "idle"
  /\ \E id \in IdParams, wellFormed \in BOOLEAN :
       /\ wellFormed \/ id = MaxUploads + 1
       /\ del' = [del EXCEPT ![d] = [@ EXCEPT !.pc = "findById", !.id = id,
                                               !.wellFormed = wellFormed]]
  /\ UNCHANGED <<req, res, tmpFiles, disk, master, catalog, nextId, dres>>
  /\ UNCHANGED <<get, gres, strm, sres>>

\* videoRoutes.js:507-519, 531-536: findById settles: a cast error for an id
\* that is no ObjectId, else 404 without a document, else the removal of the
\* directory (when it exists) or of the document is issued.
DeleteFindById(d) ==
  /\ del[d].pc = "findById"
  /\ IF ~del[d].wellFormed
     THEN /\ del' = [del EXCEPT ![d].pc = "done", ![d].error = CastError]
          /\ dres' = [dres EXCEPT ![d] =
                        Append(@, [status |-> 500, error |-> CastError])]
     ELSE IF findById(del[d].id) = {}
     THEN /\ del' = [del EXCEPT ![d].pc = "done"]
          /\ dres' = [dres EXCEPT ![d] =
                        Append(@, [status |-> 404,
                                   error |-> <<"Video", "not", "found">>])]
     ELSE /\ del' = [del EXCEPT ![d].videoDirExists = <<del[d].id>> \in disk,
                                ![d].pc = IF <<del[d].id>> \in disk THEN "rm"
                                          ELSE "findByIdAndDelete"]
          /\ dres' = dres
  /\ UNCHANGED <<req, res, tmpFiles, disk, master, catalog, nextId>>
  /\ UNCHANGED <<get, gres, strm, sres>>

\* videoRoutes.js:519-524: the directory tree is removed; findByIdAndDelete
\* is issued.
DeleteRm(d) ==
  /\ del[d].pc = "rm"
  /\ disk' = RmTree(del[d].id)
  /\ master' = [master EXCEPT ![del[d].id] = <<>>]
  /\ del' = [del EXCEPT ![d].pc = "findByIdAndDelete"]
  /\ UNCHANGED <<req, res, tmpFiles, catalog, nextId, dres>>
  /\ UNCHANGED <<get, gres, strm, sres>>

\* a catalog whose delete call removes nothing
findByIdAndDeleteKeeps(id) == catalog

\* Video.findByIdAndDelete(id) resolving (videoRoutes.js:524): the catalog
\* without the document of that id.
findByIdAndDelete(id) == catalog \ findById(id)

\* videoRoutes.js:524-529: the document is removed; success is answered.
DeleteFindByIdAndDelete(d) ==
  /\ del[d].pc = "findByIdAndDelete"
  /\ catalog' = findByIdAndDelete(del[d].id)
  /\ del' = [del EXCEPT ![d].pc = "done"]
  /\ dres' = [dres EXCEPT ![d] = Append(@, [status |-> 200, error |-> NoError])]
  /\ UNCHANGED <<req, res, tmpFiles, disk, master, nextId>>
  /\ UNCHANGED <<get, gres, strm, sres>>

\* videoRoutes.js:524, 531-536: findByIdAndDelete rejects.
DeleteFindByIdAndDeleteFails(d) ==
  /\ del[d].pc = "findByIdAndDelete"
  /\ del' = [del EXCEPT ![d].pc = "done", ![d].error = DeleteFailed]
  /\ dres' = [dres EXCEPT ![d] =
                Append(@, [status |-> 500, error |-> DeleteFailed])]
  /\ UNCHANGED <<req, res, tmpFiles, disk, master, catalog, nextId>>
  /\ UNCHANGED <<get, gres, strm, sres>>

\* ---------------------------------------------------------------- GET /:id
\* filePath.split('/').pop()
Pop(filePath) == filePath[Len(filePath)]

\* videoRoutes.js:439-446: the body of the 200 answer of GET /:id.
GetBody(video) ==
  [status |-> 200, error |-> NoError, video |-> video,
   playlistUrl |-> <<"uploads", video._id, Pop(video.filePath)>>,
   streamingUrl |->
     <<"api", "videos", "stream", video._id, Pop(video.filePath)>>]

\* videoRoutes.js:424-427: the request arrives; findById is issued.
GetVideo(g) ==
  /\ get[g].pc = "idle"
  /\ \E id \in IdParams, wellFormed \in BOOLEAN :
       /\ wellFormed \/ id = MaxUploads + 1
       /\ get' = [get EXCEPT ![g] = [pc |-> "findById", id |-> id,
                                     wellFormed |-> wellFormed]]
  /\ UNCHANGED <<req, res, tmpFiles, disk, master, catalog, nextId, del, dres>>
  /\ UNCHANGED <<gres, strm, sres>>

\* videoRoutes.js:427-450: findById settles: a cast error for an id that is
\* no ObjectId is answered 500, no document 404, a document 200.
GetFindById(g) ==
  /\ get[g].pc = "findById"
  /\ get' = [get EXCEPT ![g].pc = "done"]
  /\ gres' = [gres EXCEPT ![g] =
       IF ~get[g].wellFormed
       THEN Append(@, [status |-> 500, error |-> CastError])
       ELSE IF findById(get[g].id) = {}
       THEN Append(@, [status |-> 404, error |-> <<"Video", "not", "found">>])
       ELSE Append(@, GetBody(CHOOSE v \in findById(get[g].id) : TRUE))]
  /\ UNCHANGED <<req, res, tmpFiles, disk, master, catalog, nextId, del, dres>>
  /\ UNCHANGED <<strm, sres>>

\* ------------------------------------------------- GET /stream/:id/:file(*)
\* videoRoutes.js:72-76: the name multer gives the temp file of request r.
TempName(r) == "video-" \o ToString(r) \o ".mp4"

\* The paths that exist under the uploads root, as segments of names.
Path(p) == <<ToString(p[1])>> \o SubSeq(p, 2, Len(p))
IsFile(p) ==
  \/ Len(p) = 3
  \/ Len(p) = 2 /\ \A k \in 1..Len(renditions) : p[2] # renditions[k].folderName
\* src/server.js, as seen from the uploads root src/uploads of
\* videoRoutes.js:38.
SourceFiles == {<<"..", "server.js">>}
Files ==
  {Path(p) : p \in {q \in disk : IsFile(q)}}
    \cup {<<TempName(r)>> : r \in tmpFiles}
    \cup SourceFiles
Directories ==
  {Path(p) : p \in disk} \ Files

\* path.normalize of a relative path given by its segments: a '..' removes
\* the segment before it and stays when there is none.
RECURSIVE Normalize(_, _)
Normalize(done, rest) ==
  IF rest = <<>> THEN done
  ELSE IF Head(rest) = ".." /\ done # <<>> /\ done[Len(done)] # ".."
  THEN Normalize(SubSeq(done, 1, Len(done) - 1), Tail(rest))
  ELSE Normalize(Append(done, Head(rest)), Tail(rest))

\* videoRoutes.js:457: path.join(uploadDir, id, file), relative to uploadDir.
pathJoin(id, file) == Normalize(<<>>, <<id>> \o file)

\* fs.existsSync(filePath) (videoRoutes.js:461): files and directories.
existsSync(filePath) ==
  filePath = <<>> \/ filePath \in Files \/ filePath \in Directories

\* The names of this model that end with each suffix the handler tests.
Suffixes ==
  {<<"master.m3u8", ".m3u8">>, <<"index.m3u8", ".m3u8">>,
   <<"segment_000.ts", ".ts">>, <<"original.mp4", ".mp4">>}
    \cup {<<TempName(r), ".mp4">> : r \in Uploads}

\* file.endsWith(suffix) (videoRoutes.js:470-478)
endsWith(file, suffix) ==
  file # <<>> /\ <<file[Len(file)], suffix>> \in Suffixes

\* a handler that labels every file as a playlist
ContentTypeAlwaysPlaylist(file) == "application/vnd.apple.mpegurl"

\* videoRoutes.js:470-479: the Content-Type the handler sets.
ContentType(file) ==
  IF endsWith(file, ".m3u8") THEN "application/vnd.apple.mpegurl"
  ELSE IF endsWith(file, ".ts") THEN "video/mp2t"
  ELSE IF endsWith(file, ".mp4") THEN "video/mp4"
  ELSE "unset"

\* videoRoutes.js:470-479: the Cache-Control the handler sets.
CacheControl(file) ==
  IF endsWith(file, ".m3u8") THEN "no-cache, no-store, must-revalidate"
  ELSE IF endsWith(file, ".ts") THEN "public, max-age=31536000"
  ELSE "unset"

\* The id and file parameters of the stream requests.
StreamIds == {ToString(i) : i \in IdParams}
StreamFileParams ==
  {<<"master.m3u8">>, <<"original.mp4">>, <<"720p">>,
   <<"720p", "index.m3u8">>, <<"480p", "segment_000.ts">>,
   <<"720p", "..", "master.m3u8">>, <<"..", "1", "master.m3u8">>,
   <<"..", TempName(1)>>, <<"..", "..", "server.js">>}

\* videoRoutes.js:454-483: the request arrives: 404 unless filePath exists,
\* else the headers are set and res.sendFile is started.
StreamFile(t) ==
  /\ strm[t].pc = "idle"
  /\ \E id \in StreamIds, file \in StreamFileParams :
       LET filePath == pathJoin(id, file) IN
       IF ~existsSync(filePath)
       THEN /\ strm' = [strm EXCEPT ![t] =
                 [@ EXCEPT !.pc = "done", !.id = id, !.file = file,
                           !.filePath = filePath]]
            /\ sres' = [sres EXCEPT ![t] =
                 Append(@, [status |-> 404, contentType |-> "application/json",
                            cacheControl |-> "unset",
                            body |-> <<"File", "not", "found">>])]
       ELSE /\ strm' = [strm EXCEPT ![t] =
                 [pc |-> "sendFile", id |-> id, file |-> file,
                  filePath |-> filePath, contentType |-> ContentType(file),
                  cacheControl |-> CacheControl(file)]]
            /\ sres' = sres
  /\ UNCHANGED <<req, res, tmpFiles, disk, master, catalog, nextId, del, dres>>
  /\ UNCHANGED <<get, gres>>

\* videoRoutes.js:483-493: res.sendFile settles: the file is sent with the
\* headers set, or - for a directory or a file that is gone - its callback
\* gets an error and answers 500 under the headers already set.
SendFile(t) ==
  /\ strm[t].pc = "sendFile"
  /\ strm' = [strm EXCEPT ![t].pc = "done"]
  /\ sres' = [sres EXCEPT ![t] =
       IF strm[t].filePath \in Files
       THEN Append(@, [status |-> 200, contentType |-> strm[t].contentType,
                       cacheControl |-> strm[t].cacheControl,
                       body |-> strm[t].filePath])
       ELSE Append(@, [status |-> 500,
                       contentType |->
                         IF strm[t].contentType = "unset"
                         THEN "application/json" ELSE strm[t].contentType,
                       cacheControl |-> strm[t].cacheControl,
                       body |-> <<"Error", "serving", "file">>])]
  /\ UNCHANGED <<req, res, tmpFiles, disk, master, catalog, nextId, del, dres>>
  /\ UNCHANGED <<get, gres>>

\* ------------------------------------------------------------ specification
Next ==
  \/ \E r \in Uploads :
       \/ PostUpload(r)
       \/ ResponseTimer(r)
       \/ UploadSingle(r)
       \/ MkdirOutput(r)
       \/ AvailProbeOk(r)
       \/ AvailProbeErr(r)
       \/ DurationResult(r)
       \/ DurationError(r)
       \/ DurationTimeout(r)
       \/ DurationLate(r)
       \/ MkdirRendition(r)
       \/ EncodeEnd(r)
       \/ EncodeError(r)
       \/ EncodeTimeout(r)
       \/ EncodeLate(r)
       \/ WriteMaster(r)
       \/ CopyOriginal(r)
       \/ Save(r)
       \/ SaveFails(r)
       \/ UnlinkTmp(r)
       \/ UnlinkTmpFails(r)
       \/ CleanupUnlink(r)
       \/ CleanupUnlinkFails(r)
       \/ CleanupRm(r)
  \/ \E d \in Deletes :
       \/ DeleteVideo(d)
       \/ DeleteFindById(d)
       \/ DeleteRm(d)
       \/ DeleteFindByIdAndDelete(d)
       \/ DeleteFindByIdAndDeleteFails(d)

Spec == Init /\ [][Next]_vars

\* What the event loop, the filesystem, the catalog and the timers of
\* videoRoutes.js:129, 255 guarantee to an upload: a step of the handler that
\* waits on none of the external processes is eventually taken, and a
\* started timer eventually fires unless it was cleared.  Nothing makes
\* ffprobe or ffmpeg call back.
Fairness ==
  \A r \in Uploads :
    /\ WF_vars(MkdirOutput(r))
    /\ WF_vars(DurationTimeout(r))
    /\ WF_vars(MkdirRendition(r))
    /\ WF_vars(EncodeTimeout(r))
    /\ WF_vars(WriteMaster(r))
    /\ WF_vars(CopyOriginal(r))
    /\ WF_vars(Save(r) \/ SaveFails(r))
    /\ WF_vars(UnlinkTmp(r) \/ UnlinkTmpFails(r))
    /\ WF_vars(CleanupUnlink(r) \/ CleanupUnlinkFails(r))
    /\ WF_vars(CleanupRm(r))

SpecLive == Spec /\ Fairness

\* the uploads and deletes together with GET /:id requests
NextGet ==
  \/ Next
  \/ \E g \in Gets :
       \/ GetVideo(g)
       \/ GetFindById(g)

SpecGet == Init /\ [][NextGet]_vars

\* the uploads and deletes together with stream requests
NextStream ==
  \/ Next
  \/ \E t \in Streams :
       \/ StreamFile(t)
       \/ SendFile(t)

SpecStream == Init /\ [][NextStream]_vars

\* ------------------------------------------------------ claims: vocabulary
Done(r) == req[r].pc = "done"

Ladder == 1..Len(renditions)

\* some rendition job of request r failed or timed out
JobFailed(r) == \E k \in Ladder : req[r].jobs[k] \in {"failed", "timedout"}

\* the documents of the catalog that belong to request r
Record(r) == IF req[r].videoId = 0 THEN {} ELSE findById(req[r].videoId)

\* the asset directory of request r exists on disk
OutputDirOnDisk(r) == req[r].videoId # 0 /\ <<req[r].videoId>> \in disk

\* C1: for every upload request in which some rendition job failed or timed
\* out, once the request has completed the catalog holds no document of the
\* request and the asset's output directory does not exist.
C1_NoArtifactsAfterJobFailure ==
  \A r \in Uploads :
    (Done(r) /\ JobFailed(r)) => (Record(r) = {} /\ ~OutputDirOnDisk(r))

\* C2: no encoder process of a job that timed out is still running.
C2_TimedOutEncoderTerminated ==
  \A r \in Uploads : \A k \in Ladder :
    req[r].jobs[k] = "timedout" => req[r].procs[k] # "running"

\* C3: the master playlist is written only when every rendition job has
\* succeeded, video.save() is issued only after that and the written master
\* playlist, or after the fallback copy, and a document exists only then.
C3_SaveAfterJobsAndManifest ==
  \A r \in Uploads :
    LET id == req[r].videoId
        allSucceeded == \A k \in Ladder : /\ req[r].jobs[k] = "succeeded"
                                          /\ req[r].procs[k] = "exited"
        noneStarted == \A k \in Ladder : req[r].jobs[k] = "pending"
    IN /\ req[r].pc = "writeMaster" => (req[r].ffmpegAvailable /\ allSucceeded)
       /\ req[r].pc = "save" =>
            \/ /\ req[r].ffmpegAvailable
               /\ allSucceeded
               /\ <<id, "master.m3u8">> \in disk
               /\ master[id] = masterContent
            \/ /\ ~req[r].ffmpegAvailable
               /\ noneStarted
               /\ <<id, "original.mp4">> \in disk
       /\ Record(r) # {} =>
            \/ req[r].ffmpegAvailable /\ allSucceeded
            \/ ~req[r].ffmpegAvailable /\ noneStarted

C3_Witness ==
  \E r \in Uploads :
    /\ Record(r) # {}
    /\ req[r].ffmpegAvailable
    /\ master[req[r].videoId] = masterContent

\* C4: for every upload processed successfully with the encoder available,
\* the persisted document has one rendition descriptor per ladder entry, in
\* ladder order, and the master playlist lists the ladder in the same order.
C4_RenditionsMatchLadder ==
  \A r \in Uploads :
    (req[r].ffmpegAvailable /\ Record(r) # {}) =>
      \A v \in Record(r) :
        /\ "renditions" \in DOMAIN v
        /\ Len(v.renditions) = Len(renditions)
        /\ \A k \in Ladder :
             v.renditions[k].resolution = renditions[k].resolution
        /\ master[req[r].videoId] # <<>> =>
             /\ Len(master[req[r].videoId]) = 2 + 2 * Len(renditions)
             /\ \A k \in Ladder :
                  /\ master[req[r].videoId][2 * k + 1].RESOLUTION =
                       renditions[k].resolution
                  /\ master[req[r].videoId][2 * k + 2] =
                       <<renditions[k].folderName, renditions[k].playlistName>>

\* C5: an upload whose declared MIME type is outside the allow-list is
\* rejected with the invalid-type error, never answered 201, and none of its
\* steps writes to permanent storage: no asset id, no file or directory under
\* the uploads root, no rendition job, no document.
C5_RejectedState ==
  \A r \in Uploads :
    (req[r].pc # "idle" /\ req[r].hasFile /\ req[r].mimetype \notin allowedMimes)
      => /\ req[r].videoId = 0
         /\ ~req[r].file
         /\ r \notin tmpFiles
         /\ \A k \in Ladder : req[r].jobs[k] = "pending" /\ req[r].procs[k] = "none"
         /\ req[r].availProc = "none" /\ req[r].durProc = "none"
         /\ \A i \in 1..Len(res[r]) : res[r][i].status # 201
         /\ Done(r) => /\ req[r].error = InvalidFileType(req[r].mimetype)
                       /\ Len(res[r]) = 1

C5_RejectedFrame ==
  \A r \in Uploads :
    (/\ req'[r] # req[r]
     /\ req'[r].hasFile
     /\ req'[r].mimetype \notin allowedMimes)
      => UNCHANGED <<tmpFiles, disk, master, catalog, nextId>>

C6_InvalidInputAnswered400 ==
  \A r \in Uploads :
    (Done(r) /\ (~req[r].hasFile \/ req[r].mimetype \notin allowedMimes))
      => (Len(res[r]) = 1 /\ res[r][1].status = 400)

\* an upload whose file exceeds the size ceiling
Oversized(r) ==
  req[r].hasFile /\ req[r].mimetype \in allowedMimes /\ req[r].tooLarge

ProbeFailed(r) ==
  \/ req[r].durJob \in {"failed", "timedout"}
  \/ req[r].availProc = "exited" /\ ~req[r].ffmpegAvailable

\* C8: a failure or timeout of the prober never fails the upload (the error
\* of a failed request is never the prober's), and the document persisted
\* for such a request has duration 0.
C8_ProbeFailureSoftAndDurationZero ==
  \A r \in Uploads :
    ProbeFailed(r) =>
      /\ req[r].pc \notin {"availProbe", "duration"}
      /\ req[r].error # NoError =>
           \/ JobFailed(r)
           \/ req[r].error \in {SaveFailed, HeadersSent}
      /\ \A v \in Record(r) : "duration" \in DOMAIN v /\ v.duration = 0

\* C9: a DELETE that names an id with no document answers 404 and changes
\* neither the catalog nor the disk; a DELETE that names an existing document
\* goes on to remove it, and once completed it has answered success and both
\* the document and the asset's directory tree are gone.
C9_DeleteState ==
  \A d \in Deletes :
    del[d].pc = "done" =>
      /\ Len(dres[d]) = 1
      /\ dres[d][1].status \in {200, 404}
      /\ dres[d][1].status = 200 =>
           (findById(del[d].id) = {} /\ <<del[d].id>> \notin disk)

C9_DeleteStep ==
  \A d \in Deletes :
    (del[d].pc = "findById" /\ del'[d].pc # "findById") =>
      IF findById(del[d].id) = {}
      THEN /\ dres'[d] = <<[status |-> 404,
                            error |-> <<"Video", "not", "found">>]>>
           /\ UNCHANGED <<catalog, disk, master>>
      ELSE del'[d].pc \in {"rm", "findByIdAndDelete"}

\* C9: every completed DELETE answered 200 with document and directory gone
\* or 404, and the lookup step answers 404 without side effects exactly when
\* the id names no document.
C9_DeleteRemovesOrNotFound == []C9_DeleteState /\ [][C9_DeleteStep]_vars

\* C10: when an upload failed because a rendition job failed or timed out,
\* the response status is 408 exactly when the job timed out, and 500 when
\* the encoder failed otherwise.
C10_StatusFollowsCause ==
  \A r \in Uploads :
    (Done(r) /\ JobFailed(r)) =>
      /\ Len(res[r]) = 1
      /\ (\E k \in Ladder : req[r].jobs[k] = "timedout") => res[r][1].status = 408
      /\ (\E k \in Ladder : req[r].jobs[k] = "failed") => res[r][1].status = 500

\* C11: when video.save() failed, the completed request has left neither its
\* temp source file nor its output directory on disk and was answered 500.
C11_SaveFailureCleansUpAnd500 ==
  \A r \in Uploads :
    (Done(r) /\ req[r].error = SaveFailed) =>
      /\ r \notin tmpFiles
      /\ ~OutputDirOnDisk(r)
      /\ Len(res[r]) = 1
      /\ res[r][1].status = 500

\* request r failed: its handler caught an error
Failed(r) == req[r].error # NoError

C12_ErrorKept ==
  \A r \in Uploads : Failed(r) => req'[r].error = req[r].error

\* the response of a completed failed upload: the triggering error's, or the
\* response timer's when it fired during reception; never cleanup's
C12_ResponseState ==
  \A r \in Uploads :
    (Done(r) /\ Failed(r)) =>
      /\ Len(res[r]) = 1
      /\ req[r].error # UnlinkFailed
      /\ req[r].timer = "cleared" =>
           res[r][1] = [status |-> StatusCode(req[r].error),
                        error |-> req[r].error]
      /\ req[r].timer = "fired" =>
           res[r][1] = [status |-> 408, error |-> UploadTimeout]
      /\ req[r].timer \in {"cleared", "fired"}

Fallback(r) == req[r].availProc = "exited" /\ ~req[r].ffmpegAvailable

\* C13: the fallback is taken only when the encoder tool cannot be invoked,
\* never after a job failure, and in it no rendition job is started and no
\* master manifest is written.
C13_FallbackOnlyWhenToolMissing ==
  \A r \in Uploads :
    Fallback(r) =>
      /\ req[r].ffmpegError = CannotFindFfprobe
      /\ \A k \in Ladder : req[r].jobs[k] = "pending" /\ req[r].procs[k] = "none"
      /\ master[req[r].videoId] = <<>>
      /\ <<req[r].videoId, "master.m3u8">> \notin disk

\* the step in which GET request g is answered
GetAnswered(g) == get[g].pc = "findById" /\ get'[g].pc = "done"

\* C14: GET by id answers 200 with the asset when a record with that id
\* exists, and 404 in every case where none exists.
C14_GetStep ==
  \A g \in Gets :
    GetAnswered(g) =>
      /\ Len(gres'[g]) = 1
      /\ IF findById(get[g].id) = {}
         THEN gres'[g][1].status = 404
         ELSE /\ gres'[g][1].status = 200
              /\ gres'[g][1].video \in findById(get[g].id)

C14_GetAssetOr404 == [][C14_GetStep]_vars

\* the step in which stream request t is answered
StreamAnswered(t) == strm[t].pc # "done" /\ strm'[t].pc = "done"

\* a served playlist or segment carries the headers of its kind
C15_Headers ==
  \A t \in Streams :
    (strm[t].pc = "done" /\ sres[t][1].status = 200) =>
      /\ endsWith(strm[t].file, ".m3u8") =>
           /\ sres[t][1].contentType = "application/vnd.apple.mpegurl"
           /\ sres[t][1].cacheControl = "no-cache, no-store, must-revalidate"
      /\ endsWith(strm[t].file, ".ts") =>
           /\ sres[t][1].contentType = "video/mp2t"
           /\ sres[t][1].cacheControl = "public, max-age=31536000"

\* a path that names no existing file is answered 404
C15_Missing404 ==
  \A t \in Streams :
    (StreamAnswered(t) /\ strm'[t].filePath \notin Files) =>
      sres'[t][1].status = 404

\* C15: the stream endpoint sets content type and caching from the file
\* extension (.m3u8: manifest type, not cacheable; .ts: segment type,
\* cacheable for long), and a path that names no existing file yields 404.
C15_StreamHeadersAnd404 == []C15_Headers /\ [][C15_Missing404]_vars

\* the step in which upload r is answered 201
Answered201(r) ==
  /\ Len(res'[r]) = Len(res[r]) + 1
  /\ res'[r][Len(res'[r])].status = 201

\* a 201 is sent only for a request whose document has been stored, and it
\* carries that document; the step that leaves the save stores the document
C16_AfterPersisted ==
  \A r \in Uploads :
    /\ (req[r].pc = "save" /\ req'[r].pc = "unlinkTmp") =>
         \E v \in catalog' : v._id = req[r].videoId
    /\ Answered201(r) =>
         /\ req[r].pc = "unlinkTmp"
         /\ res'[r][1].video._id = req[r].videoId
         /\ \/ res'[r][1].video \in catalog
            \/ \E d \in Deletes :
                 /\ del[d].id = req[r].videoId
                 /\ del[d].pc = "done"
                 /\ dres[d][1].status = 200

\* C16 as stated: every 201 carries the streaming URL
\* /api/videos/stream/<id>/master.m3u8 of the persisted asset's id.
C16_StreamingUrlIsMaster ==
  \A r \in Uploads :
    (Done(r) /\ Len(res[r]) = 1 /\ res[r][1].status = 201) =>
      res[r][1].streamingUrl =
        <<"api", "videos", "stream", res[r][1].video._id, "master.m3u8">>

\* the URLs of a 201: the master manifest of the asset, or the copied
\* original when the upload took the fallback
C16_Urls ==
  \A r \in Uploads :
    (Done(r) /\ Len(res[r]) = 1 /\ res[r][1].status = 201) =>
      LET id == res[r][1].video._id
          name == IF Fallback(r) THEN "original.mp4" ELSE "master.m3u8" IN
        /\ id = req[r].videoId
        /\ res[r][1].streamingUrl = <<"api", "videos", "stream", id, name>>
        /\ res[r][1].playlistUrl = <<"uploads", id, name>>
        /\ \/ <<id, name>> \in disk
           \/ \E d \in Deletes :
                del[d].id = id /\ del[d].pc \in {"findByIdAndDelete", "done"}

\* C16 as amended: a 201 is sent only after the asset record has been
\* persisted and carries that asset with a playlist URL /uploads/<id>/<name>
\* and a streaming URL /api/videos/stream/<id>/<name> built from the asset's
\* id, where <name> is master.m3u8 for a processed upload and original<ext>
\* for an upload stored through the fallback.
C16_201AfterPersistedWithUrls == []C16_Urls /\ [][C16_AfterPersisted]_vars

\* a processed upload answered 201 whose record is in the catalog
C16_Witness ==
  \E r \in Uploads :
    /\ Done(r)
    /\ res[r] # <<>>
    /\ res[r][1].status = 201
    /\ ~Fallback(r)
    /\ res[r][1].video \in catalog
    /\ res[r][1].streamingUrl =
         <<"api", "videos", "stream", req[r].videoId, "master.m3u8">>

\* the step in which an error response is sent to upload r
ErrorAnswered(r) ==
  /\ Len(res'[r]) = Len(res[r]) + 1
  /\ res'[r][Len(res'[r])].status # 201

\* an error response is sent by the handler's catch, after its cleanup
C17_ResponseAfterCleanup ==
  \A r \in Uploads :
    (ErrorAnswered(r) /\ req'[r].file) =>
      /\ req'[r].error # NoError
      /\ req'[r].pc = "done"

\* a request that failed has sent nothing and stored no record before its
\* failure handling completed
C17_NothingBefore ==
  \A r \in Uploads :
    Failed(r) =>
      /\ Record(r) = {}
      /\ ~Done(r) => res[r] = <<>>

\* C17: every failure passes through the single top-level handler, the error
\* response is sent only after cleanup has finished, and no stage sends a
\* response or creates a catalog record before that.
C17_FailuresFunnelThroughHandler ==
  []C17_NothingBefore /\ [][C17_ResponseAfterCleanup]_vars

\* the paths the step adds under the uploads root
Written == disk' \ disk

\* the id exists before a job starts, and distinct ladder entries have
\* distinct subdirectories
C18_IdBeforeJobs ==
  /\ \A r \in Uploads :
       (\E k \in Ladder : req[r].jobs[k] # "pending") => req[r].videoId # 0
  /\ \A j, k \in Ladder :
       j # k => renditions[j].folderName # renditions[k].folderName

\* every path a request writes lies under its asset directory, and a path
\* written when job k ends lies in the subdirectory of ladder entry k
C18_WritesUnderOwnDir ==
  /\ \A p \in Written :
       \E r \in Uploads :
         /\ req'[r] # req[r]
         /\ req[r].videoId # 0
         /\ p[1] = req[r].videoId
  /\ \A r \in Uploads :
       (req[r].pc = "encode" /\ req'[r].jobs[req[r].k] = "succeeded") =>
         /\ Written # {}
         /\ \A p \in Written :
              /\ Len(p) = 3
              /\ p[1] = req[r].videoId
              /\ p[2] = renditions[req[r].k].folderName

\* C18: the asset id is generated before any rendition job starts, every
\* output path of the request lies under <uploads-root>/<asset-id>, each
\* rendition job writes only inside its own subdirectory, and the
\* subdirectories of distinct ladder entries are disjoint.
C18_OutputsIsolated == []C18_IdBeforeJobs /\ [][C18_WritesUnderOwnDir]_vars

\* both rendition jobs of a request have written their playlist and segment
C18_Witness ==
  \E r \in Uploads :
    /\ \A k \in Ladder : req[r].jobs[k] = "succeeded"
    /\ \A k \in Ladder :
         /\ <<req[r].videoId, renditions[k].folderName, "index.m3u8">> \in disk
         /\ <<req[r].videoId, renditions[k].folderName, "segment_000.ts">>
              \in disk

\* the master manifest of request r has been written
ManifestWritten(r) ==
  req[r].videoId # 0 /\ master[req[r].videoId] # <<>>

\* the manifest: header, version, then per ladder entry in ladder order the
\* stream descriptor (bitrate value x 1000, resolution) and the path
\* <folder>/<playlist>
C19_Manifest ==
  \A r \in Uploads :
    ManifestWritten(r) =>
      master[req[r].videoId] =
        <<"#EXTM3U", "#EXT-X-VERSION:6",
          [BANDWIDTH |-> 2500 * 1000, RESOLUTION |-> "1280x720"],
          <<"720p", "index.m3u8">>,
          [BANDWIDTH |-> 1500 * 1000, RESOLUTION |-> "854x480"],
          <<"480p", "index.m3u8">> >>

\* C19: the master manifest has the stated form, and the bandwidth persisted
\* in the rendition descriptor of each ladder entry equals the bandwidth
\* written for that entry in the manifest.
C19_ManifestAndPersistedBandwidth ==
  /\ C19_Manifest
  /\ \A r \in Uploads :
       ManifestWritten(r) =>
         \A v \in Record(r) :
           /\ "renditions" \in DOMAIN v
           /\ \A k \in Ladder :
                v.renditions[k].bandwidth =
                  master[req[r].videoId][2 * k + 1].BANDWIDTH

\* the lookup of DELETE d found a record whose asset directory is absent
DirAbsent(d) ==
  /\ del[d].pc = "findById"
  /\ del[d].wellFormed
  /\ findById(del[d].id) # {}
  /\ <<del[d].id>> \notin disk

\* DELETE d, the directory found absent, completes
AbsentDirDeleteCompletes(d) ==
  /\ del[d].pc = "findByIdAndDelete"
  /\ ~del[d].videoDirExists
  /\ del'[d].pc = "done"

\* the record is gone and the answer is success
DeleteSucceeds(d) ==
  /\ dres'[d] = <<[status |-> 200, error |-> NoError]>>
  /\ \A v \in catalog' : v._id # del[d].id

\* C20 as stated: a DELETE of an existing record whose asset directory is
\* already absent removes the record and answers success, not an error.
C20_Step ==
  \A d \in Deletes :
    /\ DirAbsent(d) /\ del'[d] # del[d] =>
         del'[d].pc = "findByIdAndDelete" /\ dres'[d] = <<>>
    /\ AbsentDirDeleteCompletes(d) => DeleteSucceeds(d)

C20_StepUnlessCatalogRejects ==
  \A d \in Deletes :
    /\ DirAbsent(d) /\ del'[d] # del[d] =>
         /\ del'[d].pc = "findByIdAndDelete" /\ dres'[d] = <<>>
         /\ UNCHANGED <<catalog, disk>>
    /\ AbsentDirDeleteCompletes(d) =>
         \/ DeleteSucceeds(d)
         \/ /\ dres'[d] = <<[status |-> 500, error |-> DeleteFailed]>>
            /\ del'[d].error = DeleteFailed
            /\ UNCHANGED catalog

Quiescent ==
  /\ \A r \in Uploads : req[r].pc \in {"idle", "done"}
  /\ \A d \in Deletes : del[d].pc \in {"idle", "done"}

\* C21: whenever no upload or delete request is in flight, every record of
\* the catalog has its asset directory on disk.
C21_RecordsHaveDirectory ==
  Quiescent => \A v \in catalog : <<v._id>> \in disk

\* a completed upload has exactly one response, and a response other than
\* 201 goes with no record of the request in the catalog
C22_OneResponse ==
  \A r \in Uploads :
    Done(r) =>
      /\ Len(res[r]) = 1
      /\ res[r][1].status # 201 => Record(r) = {}

\* a 201 is sent only by a request that stored its record, and a request
\* that stores its record has not been answered before
C22_PersistStep ==
  \A r \in Uploads :
    /\ Answered201(r) => req[r].pc = "unlinkTmp"
    /\ (req[r].pc = "save" /\ req'[r].pc = "unlinkTmp") => res[r] = <<>>

\* C22: every upload request receives exactly one response, which is a 201
\* if and only if a record was persisted for the request; a request answered
\* 408 by the response timer never goes on to persist a record.
C22_One201IffPersisted == []C22_OneResponse /\ [][C22_PersistStep]_vars

\* the file of upload r has been received and accepted
Received(r) == req[r].pc = "mkdirOutput"

\* C23: every upload whose file has been received eventually completes with
\* a response, given that timers fire and filesystem and catalog calls
\* return, even when an external process never reports back.
C23_ReceivedUploadCompletes ==
  \A r \in Uploads : Received(r) ~> (Done(r) /\ res[r] # <<>>)

\* a prober or encoder process started for request r is still running
ProcessRunning(r) ==
  \/ req[r].availProc = "running"
  \/ req[r].durProc = "running"
  \/ \E k \in Ladder : req[r].procs[k] = "running"

\* the step deletes the temp source file of request r
TempDeleted(r) == r \in tmpFiles /\ r \notin tmpFiles'

\* C24: the temp source file is deleted only when every prober and encoder
\* process started for its request has terminated.
C24_Step == \A r \in Uploads : TempDeleted(r) => ~ProcessRunning(r)

C24_TempDeletedAfterProcesses == [][C24_Step]_vars

\* C25: on a failed upload the asset output directory, if it was created, is
\* removed even when deleting the temp source file raises an error.
C25_OutputDirRemovedRegardless ==
  \A r \in Uploads :
    (Done(r) /\ Failed(r) /\ req[r].videoId # 0) =>
      <<req[r].videoId>> \notin disk

\* jobs are started in ladder order, after their predecessors succeeded, one
\* at a time, and none after a failed or timed-out one
C26_InOrder ==
  \A r \in Uploads :
    /\ \A k \in Ladder :
         req[r].jobs[k] # "pending" =>
           \A j \in 1..(k - 1) : req[r].jobs[j] = "succeeded"
    /\ \A j, k \in Ladder :
         (req[r].jobs[j] = "running" /\ req[r].jobs[k] = "running") => j = k
    /\ \A j \in Ladder :
         req[r].jobs[j] \in {"failed", "timedout"} =>
           \A k \in (j + 1)..Len(renditions) : req[r].jobs[k] = "pending"

\* a job is started once: from pending to running, and never pending again
C26_StartedOnce ==
  \A r \in Uploads : \A k \in Ladder :
    /\ req[r].jobs[k] # "pending" => req'[r].jobs[k] # "pending"
    /\ (req[r].jobs[k] = "pending" /\ req'[r].jobs[k] # "pending") =>
         req'[r].jobs[k] = "running"

\* C26: the rendition jobs of a request are started strictly in ladder
\* order, one at a time: job k+1 only after job k succeeded, and none after
\* a job failed or timed out.
C26_JobsInLadderOrder == []C26_InOrder /\ [][C26_StartedOnce]_vars

\* the second job runs after the first succeeded
C26_Witness ==
  \E r \in Uploads :
    /\ req[r].jobs[1] = "succeeded"
    /\ req[r].jobs[2] = "running"
    /\ req[r].procs[2] = "running"

\* C27: every file the stream endpoint serves lies under the directory of
\* the asset id given in the request.
C27_ServesOnlyUnderAssetDir ==
  \A t \in Streams :
    (strm[t].pc = "done" /\ sres[t][1].status = 200) =>
      /\ Len(sres[t][1].body) >= 2
      /\ sres[t][1].body[1] = strm[t].id

\* the terminal outcomes of a job or probe
Settled == {"succeeded", "failed", "timedout"}

\* a timer is armed exactly while its job is unsettled; it is cleared when
\* the process reported first and fired when it did not
C28_TimerFollowsJob ==
  \A r \in Uploads :
    /\ \A k \in Ladder :
         /\ req[r].jobs[k] \in {"pending", "running"} \cup Settled
         /\ req[r].timers[k] = "armed" <=> req[r].jobs[k] = "running"
         /\ req[r].jobs[k] \in {"succeeded", "failed"} =>
              req[r].timers[k] = "cleared"
         /\ req[r].jobs[k] = "timedout" <=> req[r].timers[k] = "fired"
    /\ req[r].durTimer = "armed" <=> req[r].durJob = "running"
    /\ req[r].durJob \in {"succeeded", "failed"} => req[r].durTimer = "cleared"
    /\ req[r].durJob = "timedout" <=> req[r].durTimer = "fired"

\* a settled job or probe keeps its outcome
C28_OutcomeKept ==
  \A r \in Uploads :
    /\ \A k \in Ladder :
         req[r].jobs[k] \in Settled => req'[r].jobs[k] = req[r].jobs[k]
    /\ req[r].durJob \in Settled => req'[r].durJob = req[r].durJob

\* C28: each rendition job and the duration probe settles exactly once with
\* one outcome among succeeded, failed and timed-out: the timer is cancelled
\* when the process reports, and an event arriving after the timeout does
\* not change the outcome.
C28_SettlesOnce == []C28_TimerFollowsJob /\ [][C28_OutcomeKept]_vars

\* an encoder reported after its timer had fired; the job is still timed out
C28_Witness ==
  \E r \in Uploads : \E k \in Ladder :
    /\ req[r].jobs[k] = "timedout"
    /\ req[r].timers[k] = "fired"
    /\ req[r].procs[k] = "exited"

====
